---- MODULE Spec2Model ----
(***************************************************************************)
(* Model of montreal_forced_aligner/speaker_classifier.py, the             *)
(* SpeakerClassifier worker: setup, load_ivectors, cluster_utterances and  *)
(* export_files, over an abstract file system, an abstract corpus database *)
(* and the per-job ivector archives.                                       *)
(*                                                                         *)
(* Times are integers (one unit = one tick of the 4-decimal grid that      *)
(* to_tg_interval rounds to).  Directories are sequences of path           *)
(* components, a file path is a record [dir, name, ext].                   *)
(***************************************************************************)
EXTENDS Integers, Sequences, FiniteSets, TLC

(* ------------------------------ bounds -------------------------------- *)
\* number of jobs, i.e. of ivector archives of one extraction
MaxShards == 2
\* longest recording, in ticks
MaxDur == 3
\* most utterances of one recording
MaxUtts == 2

\* utterance identifiers
Keys == {"utt1", "utt2"}
SpeakerNames == {"A", "B"}
Texts == {"hello", "world"}
FileNames == {"rec1"}
FileTypes == {"lab", "TextGrid"}
\* expected_num_speakers: 0 is "unknown"
Hints == {0, 2}
\* values of self.output_directory and of the output_directory argument
SelfOutputDirs == {<<"tmp">>, <<"out">>}
OutputDirArgs == {<<"out">>}

VARIABLES
    overwrite,               \* FileExporterMixin.overwrite
    cluster,                 \* self.cluster
    expected_num_speakers,   \* self.expected_num_speakers
    classifier,              \* self.classifier
    speaker_labels,          \* self.speaker_labels
    ivectors,                \* self.ivectors
    output_directory,        \* self.output_directory
    db,                      \* the File rows the session query returns
    dirs,                    \* directories that exist
    files,                   \* output files: path -> content
    done_marker,             \* <working_directory>/done exists
    scp,                     \* the ivector archives, one per job
    lastOp,                  \* the last call and its arguments
    trace,                   \* calls, log lines and writes of the last call
    raised                   \* what the last call raised to its caller

vars == <<overwrite, cluster, expected_num_speakers, classifier, speaker_labels,
          ivectors, output_directory, db, dirs, files, done_marker, scp,
          lastOp, trace, raised>>

config == <<overwrite, cluster, expected_num_speakers, classifier, output_directory>>

(* ------------------------------ helpers ------------------------------- *)
EmptyMap == [k \in {} |-> <<>>]

NoError == [type |-> "none", source |-> "none"]

Error(t, s) == [type |-> t, source |-> s]

working_directory == <<"tmp", "speaker_classification">>

Join(d, name) == Append(d, name)

Prefixes(d) == {SubSeq(d, 1, n) : n \in 1..Len(d)}

\* os.makedirs(d, exist_ok=True): d and its missing parents
Makedirs(ds, d) == ds \cup Prefixes(d)

IsPrefix(d, e) == Len(d) <= Len(e) /\ SubSeq(e, 1, Len(d)) = d

\* the file path p lies in d or in a directory below d
Beneath(p, d) == IsPrefix(d, p.dir)

NotAvailable ==
    "Speaker diarization functionality is currently under construction and not working in the current version."

\* the textual components of one archive line
Vectors == {<<"0.5", "-1">>, <<"-1", "0.5">>}

\* one archive as load_scp returns it: utterance identifier -> components
Shards == UNION {[K -> Vectors] : K \in SUBSET Keys}

\* an extraction writes at most as many lines as there are utterances
MaxLines == Cardinality(Keys)

TotalLines(a) == Cardinality({p \in (1..Len(a)) \X Keys : p[2] \in DOMAIN a[p[1]]})

\* the archives one extraction may leave: one per job, at least one job
ShardSeqs ==
    UNION {{a \in [1..n -> Shards] : TotalLines(a) <= MaxLines} : n \in 1..MaxShards}

(* ------------------------------- setup -------------------------------- *)
SetupSteps == <<"load_corpus", "export_model", "extract_ivectors">>

OutcomeTypes == {"ok", "KaldiProcessingError", "OSError"}

\* index of the first step that raises, 0 when none does
FirstFailure(o) ==
    IF \E i \in 1..Len(o) : o[i] # "ok"
    THEN CHOOSE i \in 1..Len(o) : o[i] # "ok" /\ \A j \in 1..(i - 1) : o[j] = "ok"
    ELSE 0

LogEveryException(e) ==
    <<[op |-> "log_kaldi_errors", error |-> e], [op |-> "update_log_file", error |-> e]>>

\* the except clause of setup: what it does before re-raising e
HandleException(e) ==
    IF e.type = "KaldiProcessingError"
    THEN <<[op |-> "log_kaldi_errors", error |-> e],
           [op |-> "update_log_file", error |-> e]>>
    ELSE <<>>

RunAllSteps(o) ==
    [i \in 1..Len(SetupSteps) |-> [op |-> SetupSteps[i], result |-> o[i]]]

\* the body of the try block: the steps invoked, in order, with their results
RunSteps(o) ==
    LET ff == FirstFailure(o)
        n == IF ff = 0 THEN Len(SetupSteps) ELSE ff
    IN [i \in 1..n |-> [op |-> SetupSteps[i], result |-> o[i]]]

\* what the three steps do when called: a step after the first failing one
\* is never asked, so its outcome is left "ok"
SetupOutcomes ==
    {o \in [1..Len(SetupSteps) -> OutcomeTypes] :
        \A i, j \in 1..Len(SetupSteps) : (i < j /\ o[i] # "ok") => o[j] = "ok"}

\* check_previous_run / log_info / os.makedirs / the try block / the except clause
setup ==
    \* check_previous_run is defined outside this file: it may discard the
    \* marker of a previous run, it never creates one
    \E clean \in (IF done_marker THEN BOOLEAN ELSE {FALSE}) :
        LET done_after == done_marker /\ ~clean
            log_dir == Join(working_directory, "log")
        IN /\ lastOp' = [name |-> "setup"]
           /\ done_marker' = done_after
           /\ UNCHANGED <<config, speaker_labels, ivectors, db, files>>
           /\ IF done_after
              THEN /\ trace' = <<[op |-> "check_previous_run"],
                                 [op |-> "log_info",
                                  msg |-> "Classification already done, skipping initialization."]>>
                   /\ raised' = NoError
                   /\ UNCHANGED <<dirs, scp>>
              ELSE \E o \in SetupOutcomes :
                       LET steps == RunSteps(o)
                           last == steps[Len(steps)]
                           failed == \E i \in 1..Len(steps) : steps[i].result # "ok"
                           e == Error(last.result, last.op)
                       IN /\ dirs' = Makedirs(dirs, log_dir)
                          /\ trace' = <<[op |-> "check_previous_run"],
                                        [op |-> "makedirs", path |-> log_dir]>>
                                       \o steps
                                       \o (IF failed THEN HandleException(e) ELSE <<>>)
                          /\ raised' = IF failed THEN e ELSE NoError
                          \* a successful extract_ivectors leaves one archive per job
                          /\ IF failed
                             THEN scp' = scp
                             ELSE scp' \in ShardSeqs

(* ---------------------------- load_ivectors --------------------------- *)
\* float(x) of one textual component, in tenths
ToFloat(x) == IF x = "0.5" THEN 5 ELSE IF x = "-1" THEN 0 - 10 ELSE 0

\* for utt, ivector in ivec.items(): self.ivectors[utt] = [float(x) ...]
MergeShard(m, ivec) ==
    [utt \in DOMAIN m \cup DOMAIN ivec |->
        IF utt \in DOMAIN ivec
        THEN [i \in 1..Len(ivec[utt]) |-> ToFloat(ivec[utt][i])]
        ELSE m[utt]]

RECURSIVE MergeShards(_, _)
MergeShards(m, shards) ==
    IF shards = <<>> THEN m
    ELSE MergeShards(MergeShard(m, Head(shards)), Tail(shards))

LoadIvectorsNoReset(current, shards) == MergeShards(current, shards)

\* the mapping load_ivectors leaves in self.ivectors
LoadIvectors(current, shards) == MergeShards(EmptyMap, shards)

load_ivectors ==
    /\ lastOp' = [name |-> "load_ivectors"]
    /\ ivectors' = LoadIvectors(ivectors, scp)
    /\ trace' = [i \in 1..Len(scp) |-> [op |-> "load_scp", job |-> i]]
    \* before any extraction there is no archive to open
    /\ raised' = IF scp = <<>> THEN Error("FileNotFoundError", "load_scp") ELSE NoError
    /\ UNCHANGED <<config, speaker_labels, db, dirs, files, done_marker, scp>>

(* -------------------------- cluster_utterances ------------------------ *)
cluster_utterances_assigns ==
    /\ lastOp' = [name |-> "cluster_utterances"]
    /\ trace' = <<>>
    /\ raised' = NoError
    /\ speaker_labels' = [utt \in DOMAIN ivectors |-> 0]
    /\ UNCHANGED <<config, ivectors, db, dirs, files, done_marker, scp>>

cluster_utterances ==
    /\ lastOp' = [name |-> "cluster_utterances"]
    /\ trace' = <<[op |-> "log_error", msg |-> NotAvailable]>>
    /\ raised' = Error("NotImplementedError", "cluster_utterances")
    /\ UNCHANGED <<config, speaker_labels, ivectors, db, dirs, files, done_marker, scp>>

(* ----------------------------- the corpus ----------------------------- *)
RECURSIVE SubsetsUpTo(_, _)
SubsetsUpTo(S, n) ==
    IF n = 0 THEN {{}}
    ELSE LET P == SubsetsUpTo(S, n - 1) IN P \cup {p \cup {x} : p \in P, x \in S}

\* File.speakers: the speakers of a recording, in their order
SpeakerOrders ==
    {<<>>} \cup {<<a>> : a \in SpeakerNames}
           \cup {q \in SpeakerNames \X SpeakerNames : q[1] # q[2]}

SeqRange(q) == {q[i] : i \in 1..Len(q)}

UtterancesOf(speakers, duration) ==
    [speaker : SeqRange(speakers),
     begin : 0..(duration - 1),
     end : 1..duration,
     text : Texts]

\* the File rows: utterances lie inside the recording and belong to one of
\* its speakers
Recordings(names) ==
    UNION {
        {[name |-> n, file_type |-> t, duration |-> d, speakers |-> sp, utterances |-> us] :
            n \in names, t \in FileTypes,
            us \in SubsetsUpTo({u \in UtterancesOf(sp, d) : u.begin < u.end}, MaxUtts)}
        : sp \in SpeakerOrders, d \in 1..MaxDur}

\* the rows of a corpus: no recording, or one recording per name
Corpora(names) == {<<>>} \cup {<<r>> : r \in Recordings(names)}

(* ------------------------ transcription tiers -------------------------- *)
Overlaps(u, v) == u.begin < v.end /\ v.begin < u.end

RECURSIVE SortByBegin(_)
SortByBegin(us) ==
    IF us = {} THEN <<>>
    ELSE LET first == CHOOSE u \in us : \A v \in us : u.begin <= v.begin
         IN <<[begin |-> first.begin, end |-> first.end, label |-> first.text]>>
            \o SortByBegin(us \ {first})

\* File.construct_transcription_tiers: the ordered mapping speaker -> Intervals
construct_transcription_tiers(file) ==
    LET of(s) == {u \in file.utterances : u.speaker = s}
        overlap == \E u, v \in file.utterances :
                       u # v /\ u.speaker = v.speaker /\ Overlaps(u, v)
    IN [error |-> IF overlap
                  THEN Error("OverlapError", "construct_transcription_tiers")
                  ELSE NoError,
        tiers |-> [i \in 1..Len(file.speakers) |->
                      [speaker |-> file.speakers[i],
                       intervals |->
                           IF of(file.speakers[i]) = {}
                           THEN <<[begin |-> 0, end |-> file.duration, label |-> ""]>>
                           ELSE SortByBegin(of(file.speakers[i]))]]]

\* CtmInterval.to_tg_interval
to_tg_interval(x) == [start |-> x.begin, end |-> x.end, label |-> x.label]

(* ----------------------------- export_files ---------------------------- *)
construct_output_path(name, directory, output_format) ==
    [dir |-> directory, name |-> name,
     ext |-> IF output_format = "lab" THEN ".lab" ELSE ".TextGrid"]

\* the text of a file as the non-empty pieces written to it
Chunks(label) == IF label = "" THEN <<>> ELSE <<label>>

Put(f, path, content) ==
    [p \in DOMAIN f \cup {path} |-> IF p = path THEN content ELSE f[p]]

RECURSIVE ExportLabLastInterval(_, _, _)
ExportLabLastInterval(tiers, output_path, st) ==
    IF tiers = <<>> THEN st
    ELSE LET intervals == Head(tiers).intervals
             opened == [st EXCEPT !.files = Put(@, output_path, [text |-> <<>>]),
                                  !.trace = Append(@, [op |-> "open", path |-> output_path])]
         IN IF intervals = <<>>
            THEN [opened EXCEPT !.raised = Error("IndexError", "export_files")]
            ELSE ExportLabLastInterval(Tail(tiers), output_path,
                     [opened EXCEPT
                         !.files = Put(@, output_path,
                                       [text |-> Chunks(intervals[Len(intervals)].label)]),
                         !.trace = Append(@, [op |-> "write", path |-> output_path])])

\* for intervals in data.values(): open(output_path, "w"), write intervals[0].label
RECURSIVE ExportLab(_, _, _)
ExportLab(tiers, output_path, st) ==
    IF tiers = <<>> THEN st
    ELSE LET intervals == Head(tiers).intervals
             opened == [st EXCEPT !.files = Put(@, output_path, [text |-> <<>>]),
                                  !.trace = Append(@, [op |-> "open", path |-> output_path])]
         IN IF intervals = <<>>
            THEN [opened EXCEPT !.raised = Error("IndexError", "export_files")]
            ELSE ExportLab(Tail(tiers), output_path,
                     [opened EXCEPT
                         !.files = Put(@, output_path,
                                       [text |-> Chunks(intervals[1].label)]),
                         !.trace = Append(@, [op |-> "write", path |-> output_path])])

\* data[speaker]
HasTier(tiers, speaker) == \E i \in 1..Len(tiers) : tiers[i].speaker = speaker

TierOf(tiers, speaker) ==
    tiers[CHOOSE i \in 1..Len(tiers) : tiers[i].speaker = speaker]

BuildTextgridSkipEmpty(file, tiers) ==
    LET spoken == SelectSeq(file.speakers,
                            LAMBDA s : \E u \in file.utterances : u.speaker = s)
    IN [error |-> NoError,
        tg |-> [minTimestamp |-> 0, maxTimestamp |-> file.duration,
                tiers |-> [i \in 1..Len(spoken) |->
                    [name |-> spoken[i],
                     entries |-> [j \in 1..Len(TierOf(tiers, spoken[i]).intervals) |->
                                     to_tg_interval(TierOf(tiers, spoken[i]).intervals[j])],
                     minT |-> 0, maxT |-> file.duration]]]]

\* the Textgrid with one IntervalTier per speaker of file.speakers
BuildTextgrid(file, tiers) ==
    IF \E i \in 1..Len(file.speakers) : ~HasTier(tiers, file.speakers[i])
    THEN [error |-> Error("KeyError", "export_files"),
          tg |-> [minTimestamp |-> 0, maxTimestamp |-> file.duration, tiers |-> <<>>]]
    ELSE [error |-> NoError,
          tg |-> [minTimestamp |-> 0, maxTimestamp |-> file.duration,
                  tiers |-> [i \in 1..Len(file.speakers) |->
                      [name |-> file.speakers[i],
                       entries |-> [j \in 1..Len(TierOf(tiers, file.speakers[i]).intervals) |->
                                       to_tg_interval(TierOf(tiers, file.speakers[i]).intervals[j])],
                       minT |-> 0, maxT |-> file.duration]]]]

Blank(start, end) == [start |-> start, end |-> end, label |-> ""]

RECURSIVE FillBetween(_)
FillBetween(entries) ==
    IF Len(entries) <= 1 THEN entries
    ELSE <<entries[1]>>
         \o (IF entries[1].end < entries[2].start
             THEN <<Blank(entries[1].end, entries[2].start)>>
             ELSE <<>>)
         \o FillBetween(Tail(entries))

\* includeBlankSpaces: blank intervals before, between and after the entries
FillInBlanks(entries, startTime, endTime) ==
    IF entries = <<>> THEN <<Blank(startTime, endTime)>>
    ELSE LET between == FillBetween(entries)
             first == between[1]
             last == between[Len(between)]
         IN (IF first.start > startTime THEN <<Blank(startTime, first.start)>> ELSE <<>>)
            \o between
            \o (IF last.end < endTime THEN <<Blank(last.end, endTime)>> ELSE <<>>)

SaveTextgridNoBlanks(tg) ==
    [minT |-> tg.minTimestamp, maxT |-> tg.maxTimestamp,
     tiers |-> [i \in 1..Len(tg.tiers) |->
                   [name |-> tg.tiers[i].name, entries |-> tg.tiers[i].entries]]]

\* tg.save(output_path, includeBlankSpaces=True, ...): what the file holds
SaveTextgrid(tg) ==
    [minT |-> tg.minTimestamp, maxT |-> tg.maxTimestamp,
     tiers |-> [i \in 1..Len(tg.tiers) |->
                   [name |-> tg.tiers[i].name,
                    entries |-> FillInBlanks(tg.tiers[i].entries,
                                             tg.minTimestamp, tg.maxTimestamp)]]]

\* one turn of the loop over the File rows
ExportFile(file, st) ==
    LET logged == IF Cardinality(file.utterances) = 0
                  THEN [st EXCEPT !.trace = Append(@, [op |-> "log_debug", file |-> file.name])]
                  ELSE st
        output_path == construct_output_path(file.name, output_directory, file.file_type)
        \* construct_output_path creates the directory of the path it returns
        st1 == [logged EXCEPT !.dirs = Makedirs(@, output_path.dir)]
        data == construct_transcription_tiers(file)
    IN IF data.error # NoError THEN [st1 EXCEPT !.raised = data.error]
       ELSE IF file.file_type = "lab" THEN ExportLab(data.tiers, output_path, st1)
       ELSE LET built == BuildTextgrid(file, data.tiers)
            IN IF built.error # NoError THEN [st1 EXCEPT !.raised = built.error]
               ELSE [st1 EXCEPT
                        !.files = Put(@, output_path, SaveTextgrid(built.tg)),
                        !.trace = Append(@, [op |-> "write", path |-> output_path])]

\* for file in files: the loop ends at the first exception
RECURSIVE ExportFiles(_, _)
ExportFiles(rows, st) ==
    IF rows = <<>> \/ st.raised # NoError THEN st
    ELSE ExportFiles(Tail(rows), ExportFile(Head(rows), st))

TranscriptionsDir == Join(working_directory, "transcriptions")

export_files(output_directory_arg) ==
    LET existed == output_directory_arg \in dirs
        local == IF ~overwrite /\ existed THEN TranscriptionsDir ELSE output_directory_arg
        st0 == [dirs |-> Makedirs(dirs, local), files |-> files,
                trace |-> <<[op |-> "makedirs", path |-> local]>>, raised |-> NoError]
        st == ExportFiles(db, st0)
    IN /\ lastOp' = [name |-> "export_files", output_directory |-> output_directory_arg,
                     existed |-> existed]
       /\ dirs' = st.dirs
       /\ files' = st.files
       /\ trace' = st.trace
       /\ raised' = st.raised
       /\ UNCHANGED <<config, speaker_labels, ivectors, db, done_marker, scp>>

(* --------------------------- specifications --------------------------- *)
\* the object as __init__ leaves it, in a working directory that a
\* previous run may have marked as done
Init ==
    /\ overwrite = FALSE
    /\ cluster \in BOOLEAN
    /\ expected_num_speakers \in Hints
    /\ classifier = "None"
    /\ speaker_labels = EmptyMap
    /\ ivectors = EmptyMap
    /\ output_directory = <<"tmp">>
    /\ db = <<>>
    /\ dirs = Prefixes(working_directory)
    /\ files = EmptyMap
    /\ done_marker \in BOOLEAN
    /\ scp = <<>>
    /\ lastOp = [name |-> "__init__"]
    /\ trace = <<>>
    /\ raised = NoError

Next == setup \/ load_ivectors \/ cluster_utterances

Spec == Init /\ [][Next]_vars

\* export_files on a loaded corpus: the object as constructed with its
\* defaults, the File rows of any corpus in the database
InitExport ==
    /\ db \in Corpora(FileNames)
    /\ overwrite \in BOOLEAN
    /\ cluster = TRUE
    /\ expected_num_speakers = 0
    /\ classifier = "None"
    /\ speaker_labels = EmptyMap
    /\ ivectors = EmptyMap
    /\ output_directory \in SelfOutputDirs
    /\ dirs = Prefixes(working_directory)
    /\ files = EmptyMap
    /\ done_marker = FALSE
    /\ scp = <<>>
    /\ lastOp = [name |-> "__init__"]
    /\ trace = <<>>
    /\ raised = NoError

NextExport == \E d \in OutputDirArgs : export_files(d)

SpecExport == InitExport /\ [][NextExport]_vars

(* ------------------------------- claims -------------------------------- *)
Rows == SeqRange(db)

Exported == lastOp.name = "export_files"

OutputPathOf(file) == construct_output_path(file.name, output_directory, file.file_type)

\* the paths the last call opened or wrote
Written == {trace[i].path : i \in {j \in 1..Len(trace) : trace[j].op \in {"open", "write"}}}

HasOverlap(file) ==
    \E u, v \in file.utterances : u # v /\ u.speaker = v.speaker /\ Overlaps(u, v)

UtterancesBy(file, s) == {u \in file.utterances : u.speaker = s}

\* C1 (as stated): when overwrite is off and the directory passed in exists,
\* every file the call writes lies beneath <working_directory>/transcriptions
\* and none beneath the directory passed in.
C1_Original ==
    (Exported /\ ~overwrite /\ lastOp.existed) =>
        \A p \in Written :
            Beneath(p, TranscriptionsDir) /\ ~Beneath(p, lastOp.output_directory)

\* C2 (as stated): after a successful export_files the file of a LAB recording
\* holds exactly the text of the first Interval of its (first) tier, also when
\* the mapping has more than one speaker key.
C2_Original ==
    \A file \in Rows :
        LET data == construct_transcription_tiers(file) IN
        (Exported /\ raised = NoError /\ file.file_type = "lab" /\ data.tiers # <<>>) =>
            /\ OutputPathOf(file) \in DOMAIN files
            /\ files[OutputPathOf(file)].text = Chunks(data.tiers[1].intervals[1].label)

\* C2 (amended): after a successful export_files the file of a LAB recording
\* whose mapping is not empty holds exactly the text of the first Interval of
\* the tier that comes last in the mapping: the single tier when there is one.
C2_LabHoldsLastTier ==
    \A file \in Rows :
        LET data == construct_transcription_tiers(file) IN
        (Exported /\ raised = NoError /\ file.file_type = "lab" /\ data.tiers # <<>>) =>
            /\ OutputPathOf(file) \in DOMAIN files
            /\ files[OutputPathOf(file)].text =
                   Chunks(data.tiers[Len(data.tiers)].intervals[1].label)

C2_Witness ==
    \E file \in Rows :
        LET data == construct_transcription_tiers(file) IN
        /\ Exported /\ raised = NoError /\ file.file_type = "lab"
        /\ Len(data.tiers) = 2
        /\ data.tiers[1].intervals[1].label # data.tiers[2].intervals[1].label
        /\ data.tiers[2].intervals[1].label # ""
        /\ OutputPathOf(file) \in DOMAIN files

\* C3 (as stated): for a LAB recording with zero intervals (no tier in the
\* mapping, or a tier without intervals) export_files does not raise and
\* leaves an empty file at the recording's output path.
C3_Original ==
    \A file \in Rows :
        LET data == construct_transcription_tiers(file) IN
        (Exported /\ file.file_type = "lab" /\ data.error = NoError
            /\ (data.tiers = <<>>
                \/ \E i \in 1..Len(data.tiers) : data.tiers[i].intervals = <<>>)) =>
            /\ raised = NoError
            /\ OutputPathOf(file) \in DOMAIN files
            /\ files[OutputPathOf(file)].text = <<>>

\* C4: export_files fails on a multi-tier recording only for overlapping
\* utterances; otherwise the container written holds one tier per speaker of
\* the recording, named by the speaker, in the recording's speaker order, and
\* the tier of a speaker without utterances is one empty interval over
\* [0, duration].
C4_OneTierPerSpeaker ==
    \A file \in Rows :
        (Exported /\ file.file_type = "TextGrid") =>
            /\ raised # NoError => (raised.type = "OverlapError" /\ HasOverlap(file))
            /\ raised = NoError =>
                /\ OutputPathOf(file) \in DOMAIN files
                /\ LET c == files[OutputPathOf(file)] IN
                   /\ Len(c.tiers) = Len(file.speakers)
                   /\ \A i \in 1..Len(file.speakers) :
                        /\ c.tiers[i].name = file.speakers[i]
                        /\ UtterancesBy(file, file.speakers[i]) = {} =>
                               c.tiers[i].entries = <<Blank(0, file.duration)>>

C4_Witness ==
    \E file \in Rows :
        /\ Exported /\ raised = NoError /\ file.file_type = "TextGrid"
        /\ Len(file.speakers) = 2
        /\ UtterancesBy(file, file.speakers[1]) = {}
        /\ UtterancesBy(file, file.speakers[2]) # {}
        /\ OutputPathOf(file) \in DOMAIN files
        /\ Len(files[OutputPathOf(file)].tiers) = 2

\* the entries are sorted, do not overlap and cover [lo, hi] without a gap
Covers(entries, lo, hi) ==
    /\ Len(entries) >= 1
    /\ entries[1].start = lo
    /\ entries[Len(entries)].end = hi
    /\ \A i \in 1..Len(entries) : entries[i].start < entries[i].end
    /\ \A i \in 1..(Len(entries) - 1) : entries[i].end = entries[i + 1].start

\* C5: the container written for a multi-tier recording declares the range
\* [0, duration], and each tier in it consists of the speaker's utterance
\* intervals and empty-label intervals that together are sorted, do not
\* overlap and cover [0, duration] without a gap.
C5_TiersCoverDuration ==
    \A file \in Rows :
        (Exported /\ raised = NoError /\ file.file_type = "TextGrid") =>
            /\ OutputPathOf(file) \in DOMAIN files
            /\ LET c == files[OutputPathOf(file)] IN
               /\ c.minT = 0
               /\ c.maxT = file.duration
               /\ \A i \in 1..Len(c.tiers) :
                    /\ Covers(c.tiers[i].entries, 0, file.duration)
                    /\ \A u \in UtterancesBy(file, c.tiers[i].name) :
                         \E j \in 1..Len(c.tiers[i].entries) :
                             c.tiers[i].entries[j] =
                                 [start |-> u.begin, end |-> u.end, label |-> u.text]
                    /\ \A j \in 1..Len(c.tiers[i].entries) :
                         \/ c.tiers[i].entries[j].label = ""
                         \/ \E u \in UtterancesBy(file, c.tiers[i].name) :
                                c.tiers[i].entries[j] =
                                    [start |-> u.begin, end |-> u.end, label |-> u.text]

C5_Witness ==
    \E file \in Rows :
        /\ Exported /\ raised = NoError /\ file.file_type = "TextGrid"
        /\ OutputPathOf(file) \in DOMAIN files
        /\ \E i \in 1..Len(files[OutputPathOf(file)].tiers) :
             LET e == files[OutputPathOf(file)].tiers[i].entries IN
             /\ Len(e) = 3
             /\ e[1].label # "" /\ e[2].label = "" /\ e[3].label # ""

\* C6: every call of cluster_utterances logs the 'not available' message and
\* raises NotImplementedError, whatever the embeddings, the hint and the mode;
\* it leaves speaker_labels and ivectors as they were, so speaker_labels stays
\* empty for ever.
C6_ClusterAlwaysFails ==
    /\ [](/\ speaker_labels = EmptyMap
          /\ lastOp.name = "cluster_utterances" =>
                /\ trace = <<[op |-> "log_error", msg |-> NotAvailable]>>
                /\ raised = Error("NotImplementedError", "cluster_utterances"))
    /\ [][lastOp'.name = "cluster_utterances" => UNCHANGED <<speaker_labels, ivectors>>]_vars

C6_Witness ==
    /\ lastOp.name = "cluster_utterances"
    /\ ivectors # EmptyMap
    /\ expected_num_speakers = 2
    /\ ~cluster
    /\ raised.type = "NotImplementedError"

\* C7 (as stated): in classification mode without reference speaker models the
\* speaker-assignment step raises a ConfigurationError, before any embedding
\* is read.
C7_Original ==
    (lastOp.name = "cluster_utterances" /\ ~cluster /\ classifier = "None") =>
        /\ raised.type = "ConfigurationError"
        /\ \A i \in 1..Len(trace) : trace[i].op # "load_scp"

StepCalls == SelectSeq(trace, LAMBDA c : c.op \in SeqRange(SetupSteps))

\* C8: when the marker exists after check_previous_run, setup invokes none of
\* the three steps and does not create the log directory; otherwise it invokes
\* load_corpus, export_model, extract_ivectors in this order, stopping at the
\* first that fails.
C8_SetupSkipsOrRunsInOrder ==
    lastOp.name = "setup" =>
        /\ trace[1].op = "check_previous_run"
        /\ done_marker =>
              /\ StepCalls = <<>>
              /\ \A i \in 1..Len(trace) : trace[i].op # "makedirs"
              /\ raised = NoError
        /\ ~done_marker =>
              /\ trace[2] = [op |-> "makedirs", path |-> Join(working_directory, "log")]
              /\ Len(StepCalls) \in 1..Len(SetupSteps)
              /\ \A i \in 1..Len(StepCalls) : StepCalls[i].op = SetupSteps[i]
              /\ \A i \in 1..(Len(StepCalls) - 1) : StepCalls[i].result = "ok"
              /\ StepCalls[Len(StepCalls)].result = "ok" => Len(StepCalls) = Len(SetupSteps)

C8_Witness ==
    /\ lastOp.name = "setup"
    /\ ~done_marker
    /\ Len(StepCalls) = 2
    /\ StepCalls[2].result # "ok"

\* C9: a failure of one of the three steps reaches the caller of setup as that
\* same error; for a KaldiProcessingError log_kaldi_errors and then
\* update_log_file run on it before it is raised again, for any other error
\* neither runs.
C9_SetupReraises ==
    lastOp.name = "setup" =>
        LET failing == {i \in 1..Len(trace) :
                           trace[i].op \in SeqRange(SetupSteps) /\ trace[i].result # "ok"}
            surfacing == {i \in 1..Len(trace) :
                             trace[i].op \in {"log_kaldi_errors", "update_log_file"}}
        IN /\ failing = {} => (raised = NoError /\ surfacing = {})
           /\ \A i \in failing :
                LET e == Error(trace[i].result, trace[i].op) IN
                /\ raised = e
                /\ IF e.type = "KaldiProcessingError"
                   THEN /\ Len(trace) = i + 2
                        /\ trace[i + 1] = [op |-> "log_kaldi_errors", error |-> e]
                        /\ trace[i + 2] = [op |-> "update_log_file", error |-> e]
                   ELSE surfacing = {} /\ Len(trace) = i

C9_Witness ==
    /\ lastOp.name = "setup"
    /\ raised = Error("KaldiProcessingError", "extract_ivectors")
    /\ trace[Len(trace)].op = "update_log_file"

\* the archive read last among those that hold utt
LastShardWith(utt) ==
    CHOOSE i \in 1..Len(scp) :
        utt \in DOMAIN scp[i] /\ \A j \in (i + 1)..Len(scp) : utt \notin DOMAIN scp[j]

\* C10: after load_ivectors the keys of ivectors are exactly the keys of the
\* archives of that call, each with the vector of the archive read last among
\* those that hold it, nothing of an earlier call remains; and load_ivectors
\* changes nothing but the ivectors mapping.
C10_IvectorsRebuilt ==
    /\ [](lastOp.name = "load_ivectors" =>
            /\ DOMAIN ivectors = UNION {DOMAIN scp[i] : i \in 1..Len(scp)}
            /\ \A utt \in DOMAIN ivectors :
                 LET line == scp[LastShardWith(utt)][utt] IN
                 ivectors[utt] = [n \in 1..Len(line) |-> ToFloat(line[n])])
    /\ [][lastOp'.name = "load_ivectors" =>
            UNCHANGED <<config, speaker_labels, db, dirs, files, done_marker, scp>>]_vars

C10_Witness ==
    /\ lastOp.name = "load_ivectors"
    /\ Len(scp) = 2
    /\ \E utt \in DOMAIN scp[1] \cap DOMAIN scp[2] : scp[1][utt] # scp[2][utt]
    /\ Cardinality(DOMAIN ivectors) = 1

====
